---- MODULE Spec2Model ----
(***************************************************************************)
(* Releases list view (ReleasesList, an AsyncView) and the release-detail  *)
(* utilities (getCommitsByRepository, ...).                                *)
(*                                                                         *)
(* ReleasesList overrides getEndpoints, onRequestSuccess and               *)
(* componentDidUpdate of AsyncView/AsyncComponent.  The base class         *)
(* (fetchData, handleRequestSuccess, handleError, the location check of    *)
(* componentDidUpdate) and the api client (request, clear, the callback    *)
(* guard) are not part of the sources at hand; they are modelled after     *)
(* the design document: remainingRequests counts the requests of the      *)
(* current fetch that have not been answered, a response is accounted for  *)
(* before onRequestSuccess runs, and a fetch invalidates the callbacks of  *)
(* the requests that are still in flight.                                  *)
(***************************************************************************)
EXTENDS Integers, Sequences, FiniteSets, TLC

\* ------------------------------------------------------------------------
\* Bounds
\* ------------------------------------------------------------------------
MaxNavigations == 2
MaxCommits == 3

\* ------------------------------------------------------------------------
\* JavaScript values of location.query
\* ------------------------------------------------------------------------
Str(s) == [type |-> "string", val |-> s]

Undefined == [type |-> "undefined", val |-> ""]

\* ?sort=a&sort=b is parsed into an array: typeof is "object"
ArrayValue == [type |-> "object", val |-> "date,sessions"]

SortValues == {Undefined, ArrayValue, Str("date"), Str("sessions")}

SearchValues == {Undefined}

CursorValues == {Undefined, Str("0:25:0")}

StatsPeriodValues == {Str("24h")}

ProjectValues == {Str("1")}

Locations ==
    [project : ProjectValues, environment : {Undefined}, cursor : CursorValues,
     query : SearchValues, sort : SortValues, statsPeriod : StatsPeriodValues,
     healthStatsPeriod : {Undefined}, healthStat : {Undefined}]

orgSlug == "org"

WithHealth == "releasesWithHealth"

WithoutHealth == "releasesWithoutHealth"

StateKeys == {WithHealth, WithoutHealth}

\* Response payloads: a fresh array per response (ref), of some length
NoReleases == [ref |-> 0, length |-> 0]

PayloadLengths == {0, 2}

LinkHeaders == {"null", "<next>; rel=next"}

VARIABLES
    pc,                \* "constructed" | "mounted" | "grouping" | "grouped"
    location,          \* this.props.location.query
    state,             \* this.state
    activeRequests,    \* requests in flight of the api client
    nextRequestId,     \* id of the next request of the api client
    forceCheckCalls,   \* number of calls of forceCheck()
    navigation,        \* history: number of fetches started
    arrivals,          \* history: answers to the requests of the current fetch
    commits,           \* history: setState calls of onRequestSuccess, current fetch
    updates,           \* history: component updates of the last handler
    lastOp,            \* history: the last handler that ran
    releasesFrom,      \* history: stateKey of the response state.releases is from
    commitList,        \* input of getCommitsByRepository
    commitsByRepository, \* its result
    commitList2,       \* the same commits in another order
    commitsByRepository2, \* the result for commitList2
    fileList,          \* input of getFilesByRepository
    filesByRepository, \* its result
    fileList2,         \* the same file changes in another order
    filesByRepository2, \* the result for fileList2
    call,              \* archiveRelease / restoreRelease: the call and its arguments
    response,          \* the outcome of its request
    effects            \* what the call has done so far, in order

loaderVars ==
    <<location, state, activeRequests, nextRequestId, forceCheckCalls,
      navigation, arrivals, commits, updates, lastOp, releasesFrom>>

commitVars == <<commitList, commitsByRepository, commitList2, commitsByRepository2>>

fileVars == <<fileList, filesByRepository, fileList2, filesByRepository2>>

archiveVars == <<call, response, effects>>

groupVars == <<commitVars, fileVars, archiveVars>>

\* no call of archiveRelease or restoreRelease
ArchiveIdle ==
    /\ call = [fn |-> "", orgId |-> "", version |-> "", onSuccess |-> "",
               pushThrows |-> FALSE]
    /\ response = [ok |-> FALSE, pending |-> TRUE]
    /\ effects = <<>>

\* no call of getFilesByRepository
FilesIdle ==
    /\ fileList = <<>>
    /\ filesByRepository = <<>>
    /\ fileList2 = <<>>
    /\ filesByRepository2 = <<>>

vars == <<pc, loaderVars, groupVars>>

\* ------------------------------------------------------------------------
\* ReleasesList
\* ------------------------------------------------------------------------
getSort(loc) == IF loc.sort.type = "string" THEN loc.sort.val ELSE "date"

getQuery(loc) == IF loc.query.type = "string" THEN loc.query ELSE Undefined

path == <<"organizations", orgSlug, "releases">>

endpointQuery(loc) ==
    [project |-> loc.project,
     environment |-> loc.environment,
     cursor |-> loc.cursor,
     query |-> loc.query,
     sort |-> loc.sort,
     healthStatsPeriod |-> loc.healthStatsPeriod,
     healthStat |-> loc.healthStat,
     summaryStatsPeriod |-> loc.statsPeriod,
     per_page |-> 25,
     health |-> 1,
     flatten |-> IF getSort(loc) = "date" THEN 0 ELSE 1]

getEndpointsAlwaysTwo(loc) ==
    LET query == endpointQuery(loc)
    IN  <<[stateKey |-> WithHealth, path |-> path, query |-> query],
          [stateKey |-> WithoutHealth, path |-> path,
           query |-> [query EXCEPT !.health = 0]]>>

getEndpointsSameHealth(loc) ==
    LET query == endpointQuery(loc)
        endpoints == <<[stateKey |-> WithHealth, path |-> path, query |-> query]>>
    IN  IF getSort(loc) = "date"
        THEN Append(endpoints,
                    [stateKey |-> WithoutHealth, path |-> path, query |-> query])
        ELSE endpoints

getEndpoints(loc) ==
    LET query == endpointQuery(loc)
        endpoints == <<[stateKey |-> WithHealth, path |-> path, query |-> query]>>
    IN  IF getSort(loc) = "date"
        THEN Append(endpoints,
                    [stateKey |-> WithoutHealth, path |-> path,
                     query |-> [query EXCEPT !.health = 0]])
        ELSE endpoints

\* does onRequestSuccess call setState
commitsStateLastRequest(st, stateKey) ==
    stateKey = WithHealth \/ st.remainingRequests = 0

commitsStateWrongKey(st, stateKey) ==
    stateKey = WithoutHealth \/ st.remainingRequests = 1

commitsState(st, stateKey) ==
    stateKey = WithHealth \/ st.remainingRequests = 1

onRequestSuccessLastWins(st, stateKey, data, link) ==
    [st EXCEPT !.reloading = FALSE,
               !.loading = FALSE,
               !.loadingHealth = (stateKey = WithoutHealth),
               !.releases = data,
               !.releasesPageLinks = link]

onRequestSuccessNoPlaceholders(st, stateKey, data, link) ==
    IF commitsState(st, stateKey)
    THEN [st EXCEPT !.reloading = FALSE,
                    !.loading = FALSE,
                    !.loadingHealth = FALSE,
                    !.releases = data,
                    !.releasesPageLinks = link]
    ELSE st

onRequestSuccess(st, stateKey, data, link) ==
    IF commitsState(st, stateKey)
    THEN [st EXCEPT !.reloading = FALSE,
                    !.loading = FALSE,
                    !.loadingHealth = (stateKey = WithoutHealth),
                    !.releases = data,
                    !.releasesPageLinks = link]
    ELSE st

\* number of forceCheck() calls of one componentDidUpdate
componentDidUpdateAnyChange(prevState, curState) ==
    IF prevState # curState THEN 1 ELSE 0

componentDidUpdate(prevState, curState) ==
    IF prevState.releases # curState.releases THEN 1 ELSE 0

shouldShowLoadingIndicator(st) ==
    (st.loading /\ ~st.reloading) \/ (st.loading /\ st.releases.length = 0)

\* getRelativeSummary(statsPeriod || DEFAULT_STATS_PERIOD)
relativePeriod(loc) ==
    IF loc.statsPeriod.type = "string" /\ loc.statsPeriod.val # ""
    THEN loc.statsPeriod.val
    ELSE "DEFAULT_STATS_PERIOD"

element(name, text, count) == [element |-> name, text |-> text, count |-> count]

renderEmptyMessage(loc) ==
    LET searchQuery == getQuery(loc)
        activeSort == getSort(loc)
    IN  IF searchQuery.type = "string" /\ searchQuery.val # ""
        THEN element("EmptyStateWarning",
                     <<"There are no releases that match", searchQuery.val>>, 0)
        ELSE IF activeSort = "users_24h"
        THEN element("EmptyStateWarning",
                     <<"There are no releases with active user data (users in the last 24 hours).">>, 0)
        ELSE IF activeSort # "date"
        THEN element("EmptyStateWarning",
                     <<"There are no releases with data in the", relativePeriod(loc)>>, 0)
        ELSE IF loc.statsPeriod.type \notin {"undefined", "null"}
                /\ loc.statsPeriod # Str("14d")
        THEN element("EmptyStateWarning", <<"There are no releases.">>, 0)
        ELSE element("ReleaseLanding", <<>>, 0)

\* the length of the array literal that renderInnerBody declares as releases
hardCodedReleases == 25

\* renderInnerBody renders its own releases constant, not this.state.releases
renderInnerBody(st, loc) ==
    IF shouldShowLoadingIndicator(st)
    THEN element("LoadingIndicator", <<>>, 0)
    ELSE IF hardCodedReleases = 0
    THEN renderEmptyMessage(loc)
    ELSE element("ReleaseCard", <<>>, hardCodedReleases)

\* ------------------------------------------------------------------------
\* AsyncComponent and the api client
\* ------------------------------------------------------------------------
getDefaultState ==
    [loading |-> TRUE,
     reloading |-> FALSE,
     error |-> FALSE,
     remainingRequests |-> -1,
     releases |-> NoReleases,
     loadingHealth |-> FALSE,
     releasesPageLinks |-> "undefined"]

\* api.clear(): the requests in flight no longer run their callbacks
clearKeepsAlive(requests) == requests

clear(requests) == {[r EXCEPT !.alive = FALSE] : r \in requests}

request(id, nav, endpoint) ==
    [id |-> id, navigation |-> nav, stateKey |-> endpoint.stateKey,
     path |-> endpoint.path, query |-> endpoint.query, alive |-> TRUE]

\* the state set by fetchData(extraState)
fetchState(st, endpoints, isReload) ==
    [st EXCEPT !.loading = TRUE,
               !.error = FALSE,
               !.remainingRequests = Len(endpoints),
               !.reloading = IF isReload THEN TRUE ELSE @]

\* the state set by handleRequestSuccess before onRequestSuccess runs
accountSuccess(st) ==
    LET stillLoading == st.remainingRequests > 1
    IN  [st EXCEPT !.remainingRequests = @ - 1,
                   !.loading = stillLoading,
                   !.reloading = @ /\ stillLoading]

\* the state set by handleError
accountError(st) ==
    LET stillLoading == st.remainingRequests > 1
    IN  [st EXCEPT !.remainingRequests = @ - 1,
                   !.error = TRUE,
                   !.loading = stillLoading,
                   !.reloading = @ /\ stillLoading]

update(prevState, curState) ==
    [prev |-> prevState.releases, cur |-> curState.releases]

\* fetchData: cancel what is in flight, set the loading state, issue the requests
fetchData(loc, isReload) ==
    LET endpoints == getEndpoints(loc)
        next == fetchState(state, endpoints, isReload)
    IN  /\ state' = next
        /\ activeRequests' =
              clear(activeRequests) \cup
              {request(nextRequestId + i - 1, navigation + 1, endpoints[i]) :
                   i \in 1..Len(endpoints)}
        /\ nextRequestId' = nextRequestId + Len(endpoints)
        /\ navigation' = navigation + 1
        /\ arrivals' = <<>>
        /\ commits' = <<>>
        \* componentWillMount runs before the first render: no update then
        /\ updates' = IF isReload THEN <<update(state, next)>> ELSE <<>>
        /\ forceCheckCalls' =
              forceCheckCalls + (IF isReload THEN componentDidUpdate(state, next) ELSE 0)

Init ==
    /\ pc = "constructed"
    /\ location \in Locations
    /\ state = getDefaultState
    /\ activeRequests = {}
    /\ nextRequestId = 1
    /\ forceCheckCalls = 0
    /\ navigation = 0
    /\ arrivals = <<>>
    /\ commits = <<>>
    /\ updates = <<>>
    /\ lastOp = [op |-> "constructor", stateKey |-> "", committed |-> FALSE]
    /\ releasesFrom = ""
    /\ commitList = <<>>
    /\ commitsByRepository = <<>>
    /\ commitList2 = <<>>
    /\ commitsByRepository2 = <<>>
    /\ FilesIdle
    /\ ArchiveIdle

\* componentWillMount
Mount ==
    /\ pc = "constructed"
    /\ pc' = "mounted"
    /\ fetchData(location, FALSE)
    /\ lastOp' = [op |-> "mount", stateKey |-> "", committed |-> FALSE]
    /\ UNCHANGED <<location, releasesFrom, groupVars>>

\* a successful response to a request whose callback is still alive
RequestSuccess(r, data, link) ==
    /\ pc = "mounted"
    /\ r \in activeRequests
    /\ r.alive
    /\ LET accounted == accountSuccess(state)
           next == onRequestSuccess(accounted, r.stateKey, data, link)
           committed == commitsState(accounted, r.stateKey)
       IN  /\ state' = next
           /\ updates' = <<update(state, accounted)>> \o
                         (IF committed THEN <<update(accounted, next)>> ELSE <<>>)
           /\ forceCheckCalls' =
                 forceCheckCalls + componentDidUpdate(state, accounted) +
                 (IF committed THEN componentDidUpdate(accounted, next) ELSE 0)
           /\ commits' =
                 IF committed
                 THEN Append(commits, [stateKey |-> r.stateKey, data |-> data,
                                       loadingHealth |-> next.loadingHealth])
                 ELSE commits
           /\ lastOp' = [op |-> "success", stateKey |-> r.stateKey,
                         committed |-> committed]
           /\ releasesFrom' = IF committed THEN r.stateKey ELSE releasesFrom
    /\ arrivals' = Append(arrivals, [stateKey |-> r.stateKey, data |-> data, ok |-> TRUE])
    /\ activeRequests' = activeRequests \ {r}
    /\ UNCHANGED <<pc, location, nextRequestId, navigation, groupVars>>

\* a failed response to a request whose callback is still alive
RequestError(r) ==
    /\ pc = "mounted"
    /\ r \in activeRequests
    /\ r.alive
    /\ LET next == accountError(state)
       IN  /\ state' = next
           /\ updates' = <<update(state, next)>>
           /\ forceCheckCalls' = forceCheckCalls + componentDidUpdate(state, next)
    /\ arrivals' = Append(arrivals, [stateKey |-> r.stateKey, data |-> NoReleases, ok |-> FALSE])
    /\ activeRequests' = activeRequests \ {r}
    /\ lastOp' = [op |-> "error", stateKey |-> r.stateKey, committed |-> FALSE]
    /\ UNCHANGED <<pc, location, nextRequestId, navigation, commits, releasesFrom,
                   groupVars>>

\* the answer to a request of a superseded fetch: its callback is not run
StaleResponse(r) ==
    /\ pc = "mounted"
    /\ r \in activeRequests
    /\ ~r.alive
    /\ activeRequests' = activeRequests \ {r}
    /\ updates' = <<>>
    /\ lastOp' = [op |-> "stale", stateKey |-> r.stateKey, committed |-> FALSE]
    /\ UNCHANGED <<pc, location, state, nextRequestId, forceCheckCalls, navigation,
                   arrivals, commits, releasesFrom, groupVars>>

\* router.push(newLocation): new props; AsyncComponent reloads when the
\* query string has changed (shouldReload = true: reloadData)
push(newLocation, op) ==
    /\ pc = "mounted"
    /\ navigation < MaxNavigations
    /\ location' = newLocation
    /\ lastOp' = [op |-> op, stateKey |-> "", committed |-> FALSE]
    /\ IF newLocation # location
       THEN fetchData(newLocation, TRUE)
       ELSE /\ updates' = <<update(state, state)>>
            /\ forceCheckCalls' = forceCheckCalls + componentDidUpdate(state, state)
            /\ UNCHANGED <<state, activeRequests, nextRequestId, navigation,
                           arrivals, commits>>
    /\ UNCHANGED <<pc, releasesFrom, groupVars>>

handleSearch(query) ==
    push([location EXCEPT !.cursor = Undefined, !.query = query], "handleSearch")

\* the cursor is kept
handleSortKeepsCursor(sort) ==
    push([location EXCEPT !.sort = sort], "handleSort")

handleSort(sort) ==
    push([location EXCEPT !.cursor = Undefined, !.sort = sort], "handleSort")

\* Pagination: a link of the page sets the cursor
Paginate(cursor) ==
    push([location EXCEPT !.cursor = cursor], "paginate")

LoaderNext ==
    \/ Mount
    \/ \E r \in activeRequests, n \in PayloadLengths, link \in LinkHeaders :
          RequestSuccess(r, [ref |-> r.id, length |-> n], link)
    \/ \E r \in activeRequests : RequestError(r)
    \/ \E r \in activeRequests : StaleResponse(r)
    \/ \E q \in {"v1", "v2"} : handleSearch(Str(q))
    \/ \E s \in {"date", "sessions"} : handleSort(Str(s))
    \/ \E c \in CursorValues : Paginate(c)

Next == LoaderNext

Spec == Init /\ [][Next]_vars

\* ------------------------------------------------------------------------
\* Release detail utilities
\* ------------------------------------------------------------------------
RepositoryNames == {"repoA", "repoB", "unknown"}

\* commit.repository: absent, or a repository with or without a name
Repositories ==
    {[present |-> FALSE, name |-> Undefined], [present |-> TRUE, name |-> Undefined]}
        \cup {[present |-> TRUE, name |-> Str(n)] : n \in RepositoryNames}

CommitIds == {"c1", "c2"}

Commits == [id : CommitIds, repository : Repositories]

CommitLists == UNION {[1..n -> Commits] : n \in 0..MaxCommits}

\* t('unknown')
unknown == "unknown"

\* commit.repository?.name ?? t('unknown')
repositoryName(commit) ==
    IF commit.repository.present /\ commit.repository.name.type = "string"
    THEN commit.repository.name.val
    ELSE unknown

\* one step of the reducer of getCommitsByRepository
addCommitFirst(acc, commit) ==
    LET name == repositoryName(commit)
        withBucket == [k \in DOMAIN acc \cup {name} |->
                          IF k \in DOMAIN acc THEN acc[k] ELSE <<>>]
    IN  [withBucket EXCEPT ![name] = <<commit>> \o @]

\* every bucket is the same array
addCommitSharedArray(acc, commit) ==
    LET name == repositoryName(commit)
        shared == IF DOMAIN acc = {} THEN <<>> ELSE acc[CHOOSE k \in DOMAIN acc : TRUE]
    IN  [k \in DOMAIN acc \cup {name} |-> Append(shared, commit)]

\* a commit without repository is skipped
addCommitSkipsUnknown(acc, commit) ==
    LET name == repositoryName(commit)
        withBucket == [k \in DOMAIN acc \cup {name} |->
                          IF k \in DOMAIN acc THEN acc[k] ELSE <<>>]
    IN  IF commit.repository.present
        THEN [withBucket EXCEPT ![name] = Append(@, commit)]
        ELSE acc

addCommit(acc, commit) ==
    LET name == repositoryName(commit)
        withBucket == [k \in DOMAIN acc \cup {name} |->
                          IF k \in DOMAIN acc THEN acc[k] ELSE <<>>]
    IN  [withBucket EXCEPT ![name] = Append(@, commit)]

RECURSIVE reduceCommits(_, _)
reduceCommits(list, acc) ==
    IF list = <<>> THEN acc ELSE reduceCommits(Tail(list), addCommit(acc, Head(list)))

getCommitsByRepository(list) == reduceCommits(list, <<>>)

InitGroup ==
    /\ pc = "grouping"
    /\ location \in {l \in Locations : l.sort = Undefined /\ l.cursor = Undefined
                                        /\ l.query = Undefined}
    /\ state = getDefaultState
    /\ activeRequests = {}
    /\ nextRequestId = 1
    /\ forceCheckCalls = 0
    /\ navigation = 0
    /\ arrivals = <<>>
    /\ commits = <<>>
    /\ updates = <<>>
    /\ lastOp = [op |-> "constructor", stateKey |-> "", committed |-> FALSE]
    /\ releasesFrom = ""
    /\ commitList \in CommitLists
    /\ commitsByRepository = <<>>
    /\ commitList2 = <<>>
    /\ commitsByRepository2 = <<>>
    /\ FilesIdle
    /\ ArchiveIdle

GroupCommits ==
    /\ pc = "grouping"
    /\ pc' = "grouped"
    /\ commitsByRepository' = getCommitsByRepository(commitList)
    /\ UNCHANGED <<commitList, commitList2, commitsByRepository2, loaderVars, fileVars, archiveVars>>

\* the list p[1], p[2], ... of the elements of list
permuted(list, p) == [i \in 1..Len(list) |-> list[p[i]]]

\* a second call, with the same commits in the order p
GroupCommitsAgain(p) ==
    /\ pc = "grouped"
    /\ pc' = "regrouped"
    /\ commitList2' = permuted(commitList, p)
    /\ commitsByRepository2' = getCommitsByRepository(permuted(commitList, p))
    /\ UNCHANGED <<commitList, commitsByRepository, loaderVars, fileVars, archiveVars>>

GroupNext ==
    \/ GroupCommits
    \/ \E p \in Permutations(1..Len(commitList)) : GroupCommitsAgain(p)

SpecGroup == InitGroup /\ [][GroupNext]_vars

\* ------------------------------------------------------------------------
\* getFilesByRepository
\* ------------------------------------------------------------------------
MaxFiles == 2

\* the component has not been mounted and stays so
LoaderIdle ==
    /\ location \in {l \in Locations : l.sort = Undefined /\ l.cursor = Undefined
                                        /\ l.query = Undefined}
    /\ state = getDefaultState
    /\ activeRequests = {}
    /\ nextRequestId = 1
    /\ forceCheckCalls = 0
    /\ navigation = 0
    /\ arrivals = <<>>
    /\ commits = <<>>
    /\ updates = <<>>
    /\ lastOp = [op |-> "constructor", stateKey |-> "", committed |-> FALSE]
    /\ releasesFrom = ""

\* no call of getCommitsByRepository
CommitsIdle ==
    /\ commitList = <<>>
    /\ commitsByRepository = <<>>
    /\ commitList2 = <<>>
    /\ commitsByRepository2 = <<>>

\* author: email absent, empty, or given; two authors share an email
Authors ==
    {[email |-> Undefined, name |-> "Ann"],
     [email |-> Str(""), name |-> "Ann"],
     [email |-> Str("a@x"), name |-> "Ann"],
     [email |-> Str("a@x"), name |-> "Ann B"],
     [email |-> Str("b@x"), name |-> "Bob"]}

FileNames == {"f1", "f2"}

FileRepoNames == {"repoA", "repoB"}

ChangeTypes == {"A", "M"}

CommitFiles ==
    [filename : FileNames, repoName : FileRepoNames, author : Authors,
     type : ChangeTypes]

FileLists == UNION {[1..n -> CommitFiles] : n \in 0..MaxFiles}

\* if (author.email)
hasEmail(author) == author.email.type = "string" /\ author.email.val # ""

\* obj[key] = value
put(obj, key, value) ==
    [k \in DOMAIN obj \cup {key} |-> IF k = key THEN value ELSE obj[k]]

\* the first author of an email is kept
addFileKeepsFirstAuthor(acc, file) ==
    LET repo == IF file.repoName \in DOMAIN acc THEN acc[file.repoName] ELSE <<>>
        entry == IF file.filename \in DOMAIN repo
                 THEN repo[file.filename]
                 ELSE [authors |-> <<>>, types |-> {}]
        authors == IF hasEmail(file.author)
                      /\ file.author.email.val \notin DOMAIN entry.authors
                   THEN put(entry.authors, file.author.email.val, file.author)
                   ELSE entry.authors
    IN  put(acc, file.repoName,
            put(repo, file.filename,
                [authors |-> authors, types |-> entry.types \cup {file.type}]))

\* the type of the last change replaces the earlier ones
addFileLastType(acc, file) ==
    LET repo == IF file.repoName \in DOMAIN acc THEN acc[file.repoName] ELSE <<>>
        entry == IF file.filename \in DOMAIN repo
                 THEN repo[file.filename]
                 ELSE [authors |-> <<>>, types |-> {}]
        authors == IF hasEmail(file.author)
                   THEN put(entry.authors, file.author.email.val, file.author)
                   ELSE entry.authors
    IN  put(acc, file.repoName,
            put(repo, file.filename,
                [authors |-> authors, types |-> {file.type}]))

\* a change without author email is skipped
addFileSkipsAnonymous(acc, file) ==
    LET repo == IF file.repoName \in DOMAIN acc THEN acc[file.repoName] ELSE <<>>
        entry == IF file.filename \in DOMAIN repo
                 THEN repo[file.filename]
                 ELSE [authors |-> <<>>, types |-> {}]
    IN  IF hasEmail(file.author)
        THEN put(acc, file.repoName,
                 put(repo, file.filename,
                     [authors |-> put(entry.authors, file.author.email.val,
                                      file.author),
                      types |-> entry.types \cup {file.type}]))
        ELSE acc

\* one step of the reducer of getFilesByRepository
addFile(acc, file) ==
    LET repo == IF file.repoName \in DOMAIN acc THEN acc[file.repoName] ELSE <<>>
        entry == IF file.filename \in DOMAIN repo
                 THEN repo[file.filename]
                 ELSE [authors |-> <<>>, types |-> {}]
        authors == IF hasEmail(file.author)
                   THEN put(entry.authors, file.author.email.val, file.author)
                   ELSE entry.authors
    IN  put(acc, file.repoName,
            put(repo, file.filename,
                [authors |-> authors, types |-> entry.types \cup {file.type}]))

RECURSIVE reduceFiles(_, _)
reduceFiles(list, acc) ==
    IF list = <<>> THEN acc ELSE reduceFiles(Tail(list), addFile(acc, Head(list)))

getFilesByRepository(list) == reduceFiles(list, <<>>)

InitFiles ==
    /\ pc = "files"
    /\ LoaderIdle
    /\ CommitsIdle
    /\ fileList \in FileLists
    /\ filesByRepository = <<>>
    /\ fileList2 = <<>>
    /\ filesByRepository2 = <<>>
    /\ ArchiveIdle

GroupFiles ==
    /\ pc = "files"
    /\ pc' = "filesGrouped"
    /\ filesByRepository' = getFilesByRepository(fileList)
    /\ UNCHANGED <<fileList, fileList2, filesByRepository2, loaderVars, commitVars, archiveVars>>

\* a second call, with the same file changes in the order p
GroupFilesAgain(p) ==
    /\ pc = "filesGrouped"
    /\ pc' = "filesRegrouped"
    /\ fileList2' = permuted(fileList, p)
    /\ filesByRepository2' = getFilesByRepository(permuted(fileList, p))
    /\ UNCHANGED <<fileList, filesByRepository, loaderVars, commitVars, archiveVars>>

FilesNext ==
    \/ GroupFiles
    \/ \E p \in Permutations(1..Len(fileList)) : GroupFilesAgain(p)

SpecFiles == InitFiles /\ [][FilesNext]_vars

\* ------------------------------------------------------------------------
\* archiveRelease, restoreRelease
\* ------------------------------------------------------------------------
Null == [type |-> "null", val |-> ""]

\* what requestPromise rejects with: with or without a response body, the
\* body with or without detail
RequestErrors ==
    {[responseJSON |-> FALSE, detail |-> Undefined]}
        \cup {[responseJSON |-> TRUE, detail |-> d] :
                 d \in {Undefined, Null, Str("Forbidden"), Str("")}}

\* what a throwing browserHistory.push or onSuccess raises
thrownError == [responseJSON |-> FALSE, detail |-> Undefined]

OrgIds == {"org", "acme"}

Versions == {"1.0", "2.0"}

Calls ==
    [fn : {"archiveRelease"}, orgId : OrgIds, version : Versions,
     onSuccess : {"undefined"}, pushThrows : BOOLEAN]
        \cup [fn : {"restoreRelease"}, orgId : OrgIds, version : Versions,
              onSuccess : {"undefined", "returns", "throws"}, pushThrows : {FALSE}]

releasesPath(orgId) == <<"organizations", orgId, "releases">>

toast(kind, text) == [kind |-> kind, text |-> text]

post(orgId, status, version) ==
    [kind |-> "POST", path |-> releasesPath(orgId),
     data |-> [status |-> status, projects |-> <<>>, version |-> version]]

\* error.responseJSON?.detail ?? fallback
errorMessageAlwaysFallback(error, fallback) == fallback

errorMessage(error, fallback) ==
    IF error.responseJSON /\ error.detail.type \notin {"undefined", "null"}
    THEN error.detail.val
    ELSE fallback

archiveFallback == "Release could not be be archived."

restoreFallback == "Release could not be be archived."

\* archiveRelease up to the await
archiveStart(c) ==
    <<toast("loading", "Archiving Release..."), post(c.orgId, "archived", c.version)>>

\* the catch block of archiveRelease
archiveCatchNavigates(c, error) ==
    <<toast("error", errorMessage(error, archiveFallback)),
      [kind |-> "push", path |-> releasesPath(c.orgId)]>>

archiveCatch(c, error) == <<toast("error", errorMessage(error, archiveFallback))>>

\* archiveRelease after the request has succeeded
archiveResolved(c) ==
    <<toast("success", "Release was successfully archived."),
      [kind |-> "push", path |-> releasesPath(c.orgId)]>>
        \o (IF c.pushThrows THEN archiveCatch(c, thrownError) ELSE <<>>)

\* restoreRelease up to the await
restoreStartArchives(c) ==
    <<toast("loading", "Restoring Release..."), post(c.orgId, "archived", c.version)>>

restoreStart(c) ==
    <<toast("loading", "Restoring Release..."), post(c.orgId, "active", c.version)>>

\* the catch block of restoreRelease
restoreCatch(c, error) == <<toast("error", errorMessage(error, restoreFallback))>>

\* restoreRelease after the request has succeeded
restoreResolvedCallbackFirst(c) ==
    (IF c.onSuccess = "undefined" THEN <<>> ELSE <<[kind |-> "onSuccess"]>>)
        \o <<toast("success", "Release was successfully restored.")>>
        \o (IF c.onSuccess = "throws" THEN restoreCatch(c, thrownError) ELSE <<>>)

restoreResolved(c) ==
    <<toast("success", "Release was successfully restored.")>>
        \o (IF c.onSuccess = "undefined" THEN <<>> ELSE <<[kind |-> "onSuccess"]>>)
        \o (IF c.onSuccess = "throws" THEN restoreCatch(c, thrownError) ELSE <<>>)

InitArchive ==
    /\ pc = "called"
    /\ LoaderIdle
    /\ CommitsIdle
    /\ FilesIdle
    /\ call \in Calls
    /\ response = [ok |-> FALSE, pending |-> TRUE]
    /\ effects = <<>>

\* the call runs up to its await: loading message, then the request
Start ==
    /\ pc = "called"
    /\ pc' = "awaiting"
    /\ effects' = IF call.fn = "archiveRelease"
                  THEN archiveStart(call)
                  ELSE restoreStart(call)
    /\ UNCHANGED <<call, response, loaderVars, commitVars, fileVars>>

\* the request succeeds and the call continues after the await
Resolve ==
    /\ pc = "awaiting"
    /\ pc' = "settled"
    /\ response' = [ok |-> TRUE, pending |-> FALSE]
    /\ effects' = effects \o (IF call.fn = "archiveRelease"
                               THEN archiveResolved(call)
                               ELSE restoreResolved(call))
    /\ UNCHANGED <<call, loaderVars, commitVars, fileVars>>

\* the request fails and the call continues in its catch block
Reject(error) ==
    /\ pc = "awaiting"
    /\ pc' = "settled"
    /\ response' = [ok |-> FALSE, pending |-> FALSE, error |-> error]
    /\ effects' = effects \o (IF call.fn = "archiveRelease"
                               THEN archiveCatch(call, error)
                               ELSE restoreCatch(call, error))
    /\ UNCHANGED <<call, loaderVars, commitVars, fileVars>>

ArchiveNext ==
    \/ Start
    \/ Resolve
    \/ \E error \in RequestErrors : Reject(error)

SpecArchive == InitArchive /\ [][ArchiveNext]_vars

\* ------------------------------------------------------------------------
\* Properties of the release loader
\* ------------------------------------------------------------------------
aliveRequests == {r \in activeRequests : r.alive}

currentRequests == {r \in activeRequests : r.navigation = navigation}

allSucceeded == \A i \in 1..Len(arrivals) : arrivals[i].ok

allAnswered == navigation >= 1 /\ Len(arrivals) = Len(getEndpoints(location))

arrivedKeys == [i \in 1..Len(arrivals) |-> arrivals[i].stateKey]

finalCommits == Cardinality({i \in 1..Len(commits) : ~commits[i].loadingHealth})

\* C1: with sort "date", once both responses of the navigation have arrived
\* successfully, in either order, releases is the payload of the
\* health-bearing response, loadingHealth is false and loading is false.
C1_FinalStateIndependentOfArrivalOrder ==
    (getSort(location) = "date" /\ Len(arrivals) = 2 /\ allSucceeded) =>
        \E i \in 1..2 :
            /\ arrivals[i].stateKey = WithHealth
            /\ state.releases = arrivals[i].data
            /\ state.loadingHealth = FALSE
            /\ state.loading = FALSE

C1_Witness ==
    /\ getSort(location) = "date"
    /\ allSucceeded
    /\ arrivedKeys = <<WithoutHealth, WithHealth>>
    /\ state.releases = arrivals[2].data
    /\ state.releases # arrivals[1].data

\* C2: with sort "date", when the health-bearing response has arrived first,
\* the arrival of the list-only response of the same navigation leaves
\* releases, loadingHealth, loading, reloading and releasesPageLinks unchanged.
C2_ListAfterHealthChangesNothing ==
    [][(/\ arrivedKeys = <<WithHealth>>
        /\ allSucceeded
        /\ navigation' = navigation
        /\ Len(arrivals') = 2
        /\ arrivals'[2].stateKey = WithoutHealth
        /\ arrivals'[2].ok)
       => /\ state'.releases = state.releases
          /\ state'.loadingHealth = state.loadingHealth
          /\ state'.loading = state.loading
          /\ state'.reloading = state.reloading
          /\ state'.releasesPageLinks = state.releasesPageLinks]_vars

C2_Witness ==
    /\ arrivedKeys = <<WithHealth, WithoutHealth>>
    /\ allSucceeded
    /\ lastOp = [op |-> "success", stateKey |-> WithoutHealth, committed |-> FALSE]
    /\ state.remainingRequests = 0
    /\ state.releases = arrivals[1].data

\* C3: with sort "date", a list-only response that arrives while the
\* health-bearing request is pending is committed as releases with
\* loadingHealth = true; the health-bearing response that arrives afterwards
\* is committed again, with its payload and loadingHealth = false.
C3_ProvisionalThenFinalCommit ==
    (/\ getSort(location) = "date"
     /\ Len(arrivals) >= 1
     /\ arrivals[1].stateKey = WithoutHealth
     /\ allSucceeded)
    => /\ Len(arrivals) = 1 =>
            /\ \E r \in aliveRequests : r.stateKey = WithHealth
            /\ state.releases = arrivals[1].data
            /\ state.loadingHealth = TRUE
            /\ commits = <<[stateKey |-> WithoutHealth, data |-> arrivals[1].data,
                            loadingHealth |-> TRUE]>>
       /\ Len(arrivals) = 2 =>
            /\ state.releases = arrivals[2].data
            /\ state.loadingHealth = FALSE
            /\ commits = <<[stateKey |-> WithoutHealth, data |-> arrivals[1].data,
                            loadingHealth |-> TRUE],
                           [stateKey |-> WithHealth, data |-> arrivals[2].data,
                            loadingHealth |-> FALSE]>>

C3_Witness ==
    /\ Len(commits) = 2
    /\ commits[1].loadingHealth
    /\ ~commits[2].loadingHealth
    /\ commits[2].stateKey = WithHealth
    /\ state.loadingHealth = FALSE

\* C4: the answer to a request of a superseded navigation does not change
\* releases, loadingHealth, loading, reloading or releasesPageLinks.
C4_StaleResponseChangesNothing ==
    [][(/\ navigation' = navigation
        /\ \E r \in activeRequests :
              r.navigation < navigation /\ r.id \notin {q.id : q \in activeRequests'})
       => /\ state'.releases = state.releases
          /\ state'.loadingHealth = state.loadingHealth
          /\ state'.loading = state.loading
          /\ state'.reloading = state.reloading
          /\ state'.releasesPageLinks = state.releasesPageLinks]_vars

C4_Witness ==
    /\ lastOp.op = "stale"
    /\ lastOp.stateKey = WithHealth
    /\ navigation = 2
    /\ state.loading

\* C5: in a navigation whose requests all succeed, exactly one call of
\* onRequestSuccess sets the state with loadingHealth = false, whatever the
\* order of arrival; there are never two.
C5_ExactlyOneFinalCommit ==
    /\ allSucceeded => finalCommits <= 1
    /\ (allAnswered /\ allSucceeded) => finalCommits = 1

C5_Witness ==
    /\ allAnswered
    /\ allSucceeded
    /\ Len(arrivals) = 2
    /\ finalCommits = 1
    /\ navigation = 2

\* C6: for a sort key other than "date" one request (releasesWithHealth) is
\* issued, and its successful response is committed: releases is its payload,
\* loading, reloading and loadingHealth are false.
C6_SingleRequestCommits ==
    (navigation >= 1 /\ getSort(location) # "date") =>
        /\ Cardinality(currentRequests) + Len(arrivals) = 1
        /\ \A r \in currentRequests : r.stateKey = WithHealth
        /\ (Len(arrivals) = 1 /\ allSucceeded) =>
              /\ arrivals[1].stateKey = WithHealth
              /\ state.releases = arrivals[1].data
              /\ state.loading = FALSE
              /\ state.reloading = FALSE
              /\ state.loadingHealth = FALSE

C6_Witness ==
    /\ getSort(location) # "date"
    /\ navigation = 2
    /\ Len(arrivals) = 1
    /\ allSucceeded
    /\ state.releases = arrivals[1].data

\* C7: when the sort key is "date" (also when the sort parameter is absent
\* or not a string) getEndpoints gives two requests to the same path,
\* releasesWithHealth with health=1 and releasesWithoutHealth whose query
\* differs only in health=0; for another sort key it gives one request.
\* These are the requests a fetch issues.
C7_EndpointsBySort ==
    LET endpoints == getEndpoints(location)
    IN  /\ location.sort.type # "string" => getSort(location) = "date"
        /\ endpoints[1].stateKey = WithHealth
        /\ endpoints[1].query.health = 1
        /\ IF getSort(location) = "date"
           THEN /\ Len(endpoints) = 2
                /\ endpoints[2].stateKey = WithoutHealth
                /\ endpoints[2].path = endpoints[1].path
                /\ endpoints[2].query.health = 0
                /\ endpoints[2].query = [endpoints[1].query EXCEPT !.health = 0]
           ELSE Len(endpoints) = 1
        /\ (navigation >= 1 /\ arrivals = <<>>) =>
              {[stateKey |-> r.stateKey, path |-> r.path, query |-> r.query] :
                   r \in currentRequests}
                 = {endpoints[i] : i \in 1..Len(endpoints)}

C7_Witness ==
    /\ location.sort.type # "string"
    /\ navigation >= 1
    /\ arrivals = <<>>
    /\ {r.query.health : r \in currentRequests} = {0, 1}

\* C8: forceCheck is called once for every component update in which the
\* releases reference differs from the previous one and for no other update;
\* every commit of onRequestSuccess is followed by one forceCheck.
C8_ForceCheckOnReleasesChange ==
    [][loaderVars' # loaderVars =>
          /\ forceCheckCalls' - forceCheckCalls =
                Cardinality({i \in 1..Len(updates') :
                                updates'[i].prev # updates'[i].cur})
          /\ (lastOp'.op = "success" /\ lastOp'.committed) =>
                forceCheckCalls' = forceCheckCalls + 1]_vars

C8_Witness ==
    /\ forceCheckCalls = 2
    /\ lastOp.op = "success"
    /\ lastOp.committed
    /\ Len(updates) = 2
    /\ updates[1].prev = updates[1].cur
    /\ updates[2].prev # updates[2].cur

\* C9: the number of outstanding requests of the current navigation is at
\* most two, and at most one when the sort key is not "date".
C9_AtMostTwoOutstanding ==
    /\ Cardinality(currentRequests) <= 2
    /\ getSort(location) # "date" => Cardinality(currentRequests) <= 1
    /\ Cardinality(aliveRequests) <= 2

C9_Witness ==
    /\ Cardinality(currentRequests) = 2
    /\ navigation = 2
    /\ Cardinality(activeRequests) > 2

\* the query parameters other than cursor and key are those of the location
\* before, the cursor is reset, and the key holds a string
replacesOnly(key, before, after) ==
    /\ \A k \in DOMAIN before \ {"cursor", key} : after[k] = before[k]
    /\ DOMAIN after = DOMAIN before
    /\ after.cursor = Undefined
    /\ after[key].type = "string"

\* C24: handleSearch and handleSort push one navigation whose query is the
\* query of the current location with the cursor reset to undefined and the
\* one key (query, sort) replaced; the other parameters are unchanged, and
\* the requests of the fetch that follows carry no cursor.
C24_SearchAndSortResetCursorOnly ==
    [][(lastOp'.op \in {"handleSearch", "handleSort"} /\ loaderVars' # loaderVars) =>
          /\ lastOp'.op = "handleSearch" => replacesOnly("query", location, location')
          /\ lastOp'.op = "handleSort" => replacesOnly("sort", location, location')
          /\ navigation' \in {navigation, navigation + 1}
          /\ navigation' = navigation + 1 <=> location' # location
          /\ \A r \in activeRequests' :
                r.navigation = navigation' => r.query.cursor = Undefined]_vars

C24_Witness ==
    /\ lastOp.op = "handleSort"
    /\ navigation = 2
    /\ location.cursor = Undefined
    /\ location.query = Undefined
    /\ \E r \in activeRequests :
          /\ r.navigation = 1
          /\ r.query.cursor # Undefined
          /\ r.query.sort # location.sort
          /\ r.query.project = location.project
          /\ r.query.summaryStatsPeriod = location.statsPeriod

healthOutstanding == \E r \in currentRequests : r.stateKey = WithHealth

C19_NoMatchMessage ==
    (/\ pc = "mounted"
     /\ ~state.loading
     /\ Len(commits) > 0
     /\ state.releases.length = 0
     /\ getQuery(location).type = "string"
     /\ getQuery(location).val # "")
    => renderInnerBody(state, location)
          = element("EmptyStateWarning",
                    <<"There are no releases that match", getQuery(location).val>>, 0)

\* ------------------------------------------------------------------------
\* Properties of the grouping utilities
\* ------------------------------------------------------------------------
\* C10: every bucket of getCommitsByRepository is the subsequence of the
\* input made of the commits that map to the bucket's key, in input order.
C10_BucketsPreserveInputOrder ==
    pc = "grouped" =>
        \A k \in DOMAIN commitsByRepository :
            LET belongs(c) == repositoryName(c) = k
            IN  commitsByRepository[k] = SelectSeq(commitList, belongs)

C10_Witness ==
    /\ pc = "grouped"
    /\ Len(commitList) = 3
    /\ repositoryName(commitList[1]) = "repoA"
    /\ repositoryName(commitList[2]) = "repoB"
    /\ repositoryName(commitList[3]) = "repoA"
    /\ commitList[1] # commitList[3]
    /\ commitsByRepository["repoA"] = <<commitList[1], commitList[3]>>

RECURSIVE totalLength(_, _)
totalLength(buckets, keys) ==
    IF keys = {} THEN 0
    ELSE LET k == CHOOSE x \in keys : TRUE
         IN  Len(buckets[k]) + totalLength(buckets, keys \ {k})

lacksRepositoryName(commit) ==
    ~commit.repository.present \/ commit.repository.name.type # "string"

inBucket(buckets, k, commit) ==
    k \in DOMAIN buckets /\ \E i \in 1..Len(buckets[k]) : buckets[k][i] = commit

\* C11: getCommitsByRepository drops no commit: a commit without a
\* repository (or without a repository name) is in the bucket of the
\* "unknown" sentinel, and the buckets together hold as many commits as the
\* input.
C11_NoCommitDropped ==
    pc = "grouped" =>
        /\ totalLength(commitsByRepository, DOMAIN commitsByRepository)
              = Len(commitList)
        /\ \A i \in 1..Len(commitList) :
              /\ inBucket(commitsByRepository, repositoryName(commitList[i]),
                          commitList[i])
              /\ lacksRepositoryName(commitList[i]) =>
                    inBucket(commitsByRepository, unknown, commitList[i])

C11_Witness ==
    /\ pc = "grouped"
    /\ Len(commitList) = 3
    /\ ~commitList[1].repository.present
    /\ commitList[2].repository.present
    /\ commitList[2].repository.name = Undefined
    /\ repositoryName(commitList[3]) = "repoA"
    /\ commitList[1] # commitList[2]
    /\ commitsByRepository[unknown] = <<commitList[1], commitList[2]>>

\* C23: no bucket of getCommitsByRepository holds both commits with a
\* repository name and commits without one; the bucket of the "unknown"
\* sentinel holds only commits that lack a repository name, also when a
\* repository is named like the sentinel.
C23_SentinelBucketOnlyUnnamed ==
    pc = "grouped" =>
        /\ \A k \in DOMAIN commitsByRepository :
              \A i, j \in 1..Len(commitsByRepository[k]) :
                 lacksRepositoryName(commitsByRepository[k][i])
                    = lacksRepositoryName(commitsByRepository[k][j])
        /\ unknown \in DOMAIN commitsByRepository =>
              \A i \in 1..Len(commitsByRepository[unknown]) :
                 lacksRepositoryName(commitsByRepository[unknown][i])

sameBuckets(list1, list2) ==
    \A k \in {repositoryName(list1[i]) : i \in 1..Len(list1)} :
        LET belongs(c) == repositoryName(c) = k
        IN  SelectSeq(list1, belongs) = SelectSeq(list2, belongs)

changesOf(list, r, f) ==
    {i \in 1..Len(list) : list[i].repoName = r /\ list[i].filename = f}

\* those of them whose author has the email e
changesBy(list, r, f, e) ==
    {i \in changesOf(list, r, f) :
        hasEmail(list[i].author) /\ list[i].author.email.val = e}

max(S) == CHOOSE i \in S : \A j \in S : j <= i

hasEntry(files, r, f) == r \in DOMAIN files /\ f \in DOMAIN files[r]

\* C12: for a repository and filename, the changes whose authors share a
\* non-empty email give one entry of the authors map under that email, whose
\* value is the author of the last such change of the input.
C12_AuthorsMergedByEmail ==
    pc = "filesGrouped" =>
        \A r \in FileRepoNames, f \in FileNames, e \in {"a@x", "b@x"} :
            changesBy(fileList, r, f, e) # {} =>
                /\ hasEntry(filesByRepository, r, f)
                /\ e \in DOMAIN filesByRepository[r][f].authors
                /\ filesByRepository[r][f].authors[e]
                      = fileList[max(changesBy(fileList, r, f, e))].author

C12_Witness ==
    /\ pc = "filesGrouped"
    /\ Len(fileList) = 2
    /\ changesBy(fileList, "repoA", "f1", "a@x") = {1, 2}
    /\ fileList[1].author # fileList[2].author
    /\ DOMAIN filesByRepository["repoA"]["f1"].authors = {"a@x"}
    /\ filesByRepository["repoA"]["f1"].authors["a@x"] = fileList[2].author

\* C13 as stated: the result is the same for every permutation of the input.
C13_PermutationInvariant ==
    pc = "filesRegrouped" => filesByRepository2 = filesByRepository

\* changes of one file that share an email carry the same author
authorsAgree(list) ==
    \A i, j \in 1..Len(list) :
        (/\ list[i].repoName = list[j].repoName
         /\ list[i].filename = list[j].filename
         /\ hasEmail(list[i].author)
         /\ list[i].author.email = list[j].author.email)
        => list[i].author = list[j].author

\* C13 (amended): for every permutation of the input the two results have
\* the same repositories, filenames, types sets and emails of the authors
\* maps; they are equal when the changes of one file that share an email
\* carry the same author, and otherwise the value under an email is the
\* author of the last such change of each order.
C13_PermutationInvariantUpToAuthors ==
    pc = "filesRegrouped" =>
        /\ DOMAIN filesByRepository2 = DOMAIN filesByRepository
        /\ \A r \in DOMAIN filesByRepository :
              /\ DOMAIN filesByRepository2[r] = DOMAIN filesByRepository[r]
              /\ \A f \in DOMAIN filesByRepository[r] :
                    /\ filesByRepository2[r][f].types = filesByRepository[r][f].types
                    /\ DOMAIN filesByRepository2[r][f].authors
                          = DOMAIN filesByRepository[r][f].authors
                    /\ \A e \in DOMAIN filesByRepository2[r][f].authors :
                          filesByRepository2[r][f].authors[e]
                             = fileList2[max(changesBy(fileList2, r, f, e))].author
        /\ authorsAgree(fileList) => filesByRepository2 = filesByRepository

C13_Witness ==
    /\ pc = "filesRegrouped"
    /\ Len(fileList) = 2
    /\ fileList2 = <<fileList[2], fileList[1]>>
    /\ changesOf(fileList, "repoA", "f1") = {1, 2}
    /\ fileList[1].type # fileList[2].type
    /\ authorsAgree(fileList)
    /\ hasEmail(fileList[1].author)
    /\ filesByRepository2 = filesByRepository

\* C20: an entry for (repository, filename) exists exactly when some change
\* of the input has them; its types are the types of those changes and the
\* keys of its authors map are their non-empty author emails.  A change
\* without author email creates the entry and adds its type, but no author.
C20_FilesByRepositoryContents ==
    pc = "filesGrouped" =>
        /\ DOMAIN filesByRepository \subseteq FileRepoNames
        /\ \A r \in DOMAIN filesByRepository :
              DOMAIN filesByRepository[r] \subseteq FileNames
        /\ \A r \in FileRepoNames, f \in FileNames :
              /\ hasEntry(filesByRepository, r, f) <=> changesOf(fileList, r, f) # {}
              /\ hasEntry(filesByRepository, r, f) =>
                    /\ filesByRepository[r][f].types
                          = {fileList[i].type : i \in changesOf(fileList, r, f)}
                    /\ DOMAIN filesByRepository[r][f].authors
                          = {fileList[i].author.email.val :
                                i \in {j \in changesOf(fileList, r, f) :
                                          hasEmail(fileList[j].author)}}

C20_Witness ==
    /\ pc = "filesGrouped"
    /\ Len(fileList) = 2
    /\ changesOf(fileList, "repoB", "f2") = {1, 2}
    /\ fileList[1].author.email = Str("")
    /\ fileList[2].author.email = Undefined
    /\ fileList[1].type # fileList[2].type
    /\ filesByRepository["repoB"]["f2"] = [authors |-> <<>>, types |-> ChangeTypes]

\* ------------------------------------------------------------------------
\* Properties of archiveRelease and restoreRelease
\* ------------------------------------------------------------------------
positions(kind) == {i \in 1..Len(effects) : effects[i].kind = kind}

failed == pc = "settled" /\ ~response.ok

succeeded == pc = "settled" /\ response.ok

\* C15: when the request of archiveRelease or restoreRelease fails, one
\* error message is shown: the detail of the response body when the body
\* has one, the fallback message when there is no body or no detail.
C15_ErrorMessageOfFailure ==
    failed =>
        /\ Cardinality(positions("error")) = 1
        /\ \A i \in positions("error") :
              effects[i].text =
                 IF response.error.responseJSON
                    /\ response.error.detail.type = "string"
                 THEN response.error.detail.val
                 ELSE "Release could not be be archived."

C15_Witness ==
    /\ failed
    /\ call.fn = "restoreRelease"
    /\ response.error.detail = Str("Forbidden")
    /\ effects[Len(effects)] = toast("error", "Forbidden")

\* C16: archiveRelease navigates to the releases list of the organization
\* exactly when the request succeeded: then the success message is shown and
\* browserHistory.push is called once after it; after a failure there is no
\* navigation and no success message.
C16_ArchiveNavigatesOnSuccessOnly ==
    (pc = "settled" /\ call.fn = "archiveRelease") =>
        /\ response.ok =>
              /\ Cardinality(positions("success")) = 1
              /\ Cardinality(positions("push")) = 1
              /\ \A i \in positions("success"), j \in positions("push") :
                    /\ j = i + 1
                    /\ effects[j].path = releasesPath(call.orgId)
        /\ ~response.ok =>
              /\ positions("push") = {}
              /\ positions("success") = {}

C16_Witness ==
    /\ succeeded
    /\ call.fn = "archiveRelease"
    /\ call.orgId = "acme"
    /\ ~call.pushThrows
    /\ effects[Len(effects)] = [kind |-> "push", path |-> releasesPath("acme")]

\* C17: restoreRelease calls onSuccess once when the request succeeded,
\* after the success message, and not when it failed; it does not navigate,
\* and without a callback the successful call shows no error.
C17_RestoreCallsOnSuccess ==
    (pc = "settled" /\ call.fn = "restoreRelease") =>
        /\ positions("push") = {}
        /\ (response.ok /\ call.onSuccess # "undefined") =>
              /\ Cardinality(positions("onSuccess")) = 1
              /\ \A i \in positions("success"), j \in positions("onSuccess") : i < j
              /\ positions("success") # {}
        /\ (response.ok /\ call.onSuccess = "undefined") =>
              /\ positions("onSuccess") = {}
              /\ positions("error") = {}
              /\ Cardinality(positions("success")) = 1
        /\ ~response.ok => positions("onSuccess") = {}

C17_Witness ==
    /\ succeeded
    /\ call.fn = "restoreRelease"
    /\ call.onSuccess = "returns"
    /\ effects[Len(effects)] = [kind |-> "onSuccess"]
    /\ effects[Len(effects) - 1].kind = "success"

\* C18: a call of archiveRelease or restoreRelease issues one POST to the
\* releases path of the organization, with body {status, projects: [],
\* version}, status archived for archive and active for restore, whether it
\* succeeds or fails; there is no second request after a failure.
C18_OnePostPerCall ==
    pc \in {"awaiting", "settled"} =>
        /\ Cardinality(positions("POST")) = 1
        /\ \A i \in positions("POST") :
              /\ effects[i].path = releasesPath(call.orgId)
              /\ effects[i].data =
                    [status |-> IF call.fn = "archiveRelease"
                                THEN "archived" ELSE "active",
                     projects |-> <<>>,
                     version |-> call.version]

C18_Witness ==
    /\ failed
    /\ call.fn = "restoreRelease"
    /\ call.version = "2.0"
    /\ Cardinality(positions("POST")) = 1
    /\ effects[2].data.status = "active"

\* C21: a call of archiveRelease or restoreRelease shows the loading message
\* first, before the request is issued, and once settled has shown exactly
\* one of the success message and an error message, never both, also when
\* browserHistory.push or onSuccess throws after the success message.
C21_SuccessOrErrorNeverBoth ==
    /\ pc \in {"awaiting", "settled"} =>
          /\ effects[1].kind = "loading"
          /\ effects[2].kind = "POST"
          /\ positions("loading") = {1}
    /\ pc = "settled" =>
          Cardinality(positions("success")) + Cardinality(positions("error")) = 1

====
